---------------------------- MODULE Spec2Model ----------------------------
(***************************************************************************)
(* A model of the in-memory ToDoList manager: models/task.py,              *)
(* models/project.py and services/project_manager.py.                      *)
(*                                                                         *)
(* Python strings that the code trims, measures or parses (names, titles,  *)
(* descriptions, deadlines) are sequences of one-character strings, so     *)
(* that str.strip, len and datetime.strptime are computed, not assumed.    *)
(* Status tags are only compared, and are plain strings.                   *)
(* An Optional[str] argument is a set: {} is None, {s} is the string s.    *)
(* The manager's dict is a sequence of [key, proj] entries in insertion    *)
(* order, which is the iteration order of a Python dict.                   *)
(* created_at (the wall clock at construction) is never read by the        *)
(* manager and is left out of the records.                                 *)
(* A manager method is one step, except where a specification follows a    *)
(* call statement by statement: then frames holds the position and the     *)
(* locals of the call in flight, and an entry of the dict also carries     *)
(* ref, the identity of the Project object it refers to.                   *)
(***************************************************************************)
EXTENDS Integers, Sequences, FiniteSets, TLC

VARIABLES
    projects,   \* ProjectManager.projects: <<[key, proj: [name, description, tasks]], ...>>
    op,         \* the manager method called last ("init" before any call)
    result,     \* its outcome: "ok", or the message of the ToDoError it raised
    frames      \* per caller, the call it has in flight: its position and locals

vars == <<projects, op, result, frames>>

---------------------------------------------------------------------------
(* Configuration and limits                                                *)

\* int(os.getenv('MAX_NUMBER_OF_PROJECTS'))
MAX_NUMBER_OF_PROJECTS == 2

\* int(os.getenv('MAX_NUMBER_OF_TASKS_PER_PROJECT'))
MAX_NUMBER_OF_TASKS_PER_PROJECT == 2

\* len(title) > 30
MaxTitleLen == 30

\* len(description) > 150
MaxDescriptionLen == 150

---------------------------------------------------------------------------
(* Strings                                                                 *)

None == {}
Some(s) == {s}
Val(o) == CHOOSE s \in o : TRUE

IsSpace(c) == c \in {" ", "\t", "\n"}

RECURSIVE LStrip(_)
LStrip(s) == IF s # <<>> /\ IsSpace(Head(s)) THEN LStrip(Tail(s)) ELSE s

RECURSIVE RStrip(_)
RStrip(s) ==
    IF s # <<>> /\ IsSpace(s[Len(s)]) THEN RStrip(SubSeq(s, 1, Len(s) - 1)) ELSE s

\* str.strip()
Strip(s) == RStrip(LStrip(s))

\* Python truthiness of an Optional[str] holding a character sequence
Truthy(o) == o # None /\ Val(o) # <<>>

\* Python truthiness of an Optional[str] holding a status tag
TruthyTag(o) == o # None /\ Val(o) # ""

\* a string of n copies of the character c
Repeat(c, n) == [i \in 1..n |-> c]

---------------------------------------------------------------------------
(* datetime.strptime(s, '%Y-%m-%d'): the format's regular expression       *)
(* \d{4}-(1[0-2]|0[1-9]|[1-9])-(3[01]|[12]\d|0[1-9]|[1-9]| [1-9]) must     *)
(* match the whole string, and the fields must be a date of the calendar.  *)

DigitVal ==
    "0" :> 0 @@ "1" :> 1 @@ "2" :> 2 @@ "3" :> 3 @@ "4" :> 4 @@
    "5" :> 5 @@ "6" :> 6 @@ "7" :> 7 @@ "8" :> 8 @@ "9" :> 9

IsDigit(c) == c \in DOMAIN DigitVal

AllDigits(s) == \A i \in 1..Len(s) : IsDigit(s[i])

RECURSIVE Num(_)
Num(s) == IF s = <<>> THEN 0
          ELSE 10 * Num(SubSeq(s, 1, Len(s) - 1)) + DigitVal[s[Len(s)]]

IsLeap(y) == (y % 4 = 0 /\ y % 100 # 0) \/ y % 400 = 0

DaysInMonth(y, m) ==
    IF m = 2 THEN (IF IsLeap(y) THEN 29 ELSE 28)
    ELSE IF m \in {4, 6, 9, 11} THEN 30 ELSE 31

\* the %m field: 1[0-2] | 0[1-9] | [1-9]
MonthField(f) == AllDigits(f) /\ Num(f) \in 1..12

\* the %d field: 3[01] | [12]\d | 0[1-9] | [1-9] | " "[1-9]
DayField(f) ==
    \/ AllDigits(f) /\ Num(f) \in 1..31
    \/ Len(f) = 2 /\ f[1] = " " /\ IsDigit(f[2]) /\ f[2] # "0"

DayVal(f) == IF f[1] = " " THEN Num(Tail(f)) ELSE Num(f)

\* TRUE iff strptime returns, FALSE iff it raises ValueError
ParsesYmd(s) ==
    LET n == Len(s) IN
    /\ n >= 8
    /\ AllDigits(SubSeq(s, 1, 4))
    /\ s[5] = "-"
    /\ \E ml \in {1, 2}, dl \in {1, 2} :
          /\ n = 6 + ml + dl
          /\ s[6 + ml] = "-"
          /\ MonthField(SubSeq(s, 6, 5 + ml))
          /\ DayField(SubSeq(s, 7 + ml, n))
          /\ Num(SubSeq(s, 1, 4)) >= 1
          /\ DayVal(SubSeq(s, 7 + ml, n))
                <= DaysInMonth(Num(SubSeq(s, 1, 4)), Num(SubSeq(s, 6, 5 + ml)))

---------------------------------------------------------------------------
(* ToDoError messages                                                      *)

OK == "ok"
EmptyName == "Project name cannot be empty."
ProjectCapacityExceeded == "Maximum number of projects"
DuplicateName == "Project name already exists."
ProjectNotFound == "Project not found."
NewNameEmpty == "New project name cannot be empty."
NewNameExists == "Another project with the new name already exists."
EmptyTitle == "Task title cannot be empty."
TitleTooLong == "Title must be less than 30 characters."
DescriptionTooLong == "Description must be less than 150 characters."
MissingDeadline == "Deadline is required and must be YYYY-MM-DD."
InvalidDeadline == "Invalid deadline. Must be YYYY-MM-DD."
InvalidDeadlineFormat == "Invalid deadline format. Must be YYYY-MM-DD."
InvalidStatus == "Invalid status. Must be todo|doing|done."
TaskCapacityExceeded == "Maximum tasks per project"
DuplicateTitle == "Task title already exists in this project."
TaskNotFound == "Task not found."

Statuses == {"todo", "doing", "done"}


---------------------------------------------------------------------------
(* Outcomes of a call: a raised ToDoError, or a returned value             *)

Raise(msg) == [err |-> msg]
Return(v) == [err |-> OK, val |-> v]

---------------------------------------------------------------------------
(* models/task.py                                                          *)

\* Task(title=..., description=..., status=..., deadline=...)
Task(title, description, status, deadline) ==
    [title |-> title, description |-> description,
     status |-> status, deadline |-> deadline]

\* mark_status that assigns the status without testing it
mark_status_Unchecked(task, new_status) ==
    Return([task EXCEPT !.status = new_status])

\* Task.mark_status: the task after the call, or the error raised
mark_status(task, new_status) ==
    IF new_status \notin Statuses
    THEN Raise(InvalidStatus)
    ELSE Return([task EXCEPT !.status = new_status])

---------------------------------------------------------------------------
(* models/project.py                                                       *)

\* Project(name=..., description=...): the task list starts empty
Project(name, description) ==
    [name |-> name, description |-> description, tasks |-> <<>>]

\* the positions of the tasks titled task_title, in list order
TitleMatches(tasks, task_title) ==
    {i \in 1..Len(tasks) : tasks[i].title = task_title}

\* the first position the for-loop over self.tasks stops at
FirstMatch(tasks, task_title) ==
    CHOOSE i \in TitleMatches(tasks, task_title) :
        \A j \in TitleMatches(tasks, task_title) : i <= j

\* del self.tasks[i]
DelAt(s, i) == SubSeq(s, 1, i - 1) \o SubSeq(s, i + 1, Len(s))

\* add_task with the capacity test written > instead of >=
add_task_CapOffByOne(proj, task) ==
    IF Len(proj.tasks) > MAX_NUMBER_OF_TASKS_PER_PROJECT
    THEN Raise(TaskCapacityExceeded)
    ELSE IF \E i \in 1..Len(proj.tasks) : proj.tasks[i].title = task.title
    THEN Raise(DuplicateTitle)
    ELSE Return([proj EXCEPT !.tasks = Append(@, task)])

\* add_task with the duplicate test made before the capacity test
add_task_DuplicateFirst(proj, task) ==
    IF \E i \in 1..Len(proj.tasks) : proj.tasks[i].title = task.title
    THEN Raise(DuplicateTitle)
    ELSE IF Len(proj.tasks) >= MAX_NUMBER_OF_TASKS_PER_PROJECT
    THEN Raise(TaskCapacityExceeded)
    ELSE Return([proj EXCEPT !.tasks = Append(@, task)])

\* Project.add_task: the project after the call, or the error raised
add_task(proj, task) ==
    IF Len(proj.tasks) >= MAX_NUMBER_OF_TASKS_PER_PROJECT
    THEN Raise(TaskCapacityExceeded)
    ELSE IF \E i \in 1..Len(proj.tasks) : proj.tasks[i].title = task.title
    THEN Raise(DuplicateTitle)
    ELSE Return([proj EXCEPT !.tasks = Append(@, task)])

\* remove_task that deletes the last task of that title instead of the first
remove_task_LastMatch(proj, task_title) ==
    IF TitleMatches(proj.tasks, task_title) = {}
    THEN Raise(TaskNotFound)
    ELSE Return([proj EXCEPT
                   !.tasks = DelAt(@, CHOOSE i \in TitleMatches(@, task_title) :
                                         \A j \in TitleMatches(@, task_title) :
                                            j <= i)])

\* Project.remove_task: the project after the call, or the error raised
remove_task(proj, task_title) ==
    IF TitleMatches(proj.tasks, task_title) = {}
    THEN Raise(TaskNotFound)
    ELSE Return([proj EXCEPT
                   !.tasks = DelAt(@, FirstMatch(proj.tasks, task_title))])

\* Project.get_task: the position of the task returned (a reference into
\* the list), or the error raised
get_task(proj, task_title) ==
    IF TitleMatches(proj.tasks, task_title) = {}
    THEN Raise(TaskNotFound)
    ELSE Return(FirstMatch(proj.tasks, task_title))

---------------------------------------------------------------------------
(* The dict self.projects                                                  *)

Keys(P) == {P[i].key : i \in 1..Len(P)}

\* name in self.projects
HasKey(P, name) == name \in Keys(P)

KeyIndex(P, name) == CHOOSE i \in 1..Len(P) : P[i].key = name

\* self.projects[name]
DictGet(P, name) == P[KeyIndex(P, name)].proj

\* self.projects[name] = proj: a new key goes last, a present key keeps its place
DictSet(P, name, proj) ==
    IF HasKey(P, name)
    THEN [P EXCEPT ![KeyIndex(P, name)].proj = proj]
    ELSE Append(P, [key |-> name, proj |-> proj])

\* del self.projects[name]
DictDel(P, name) == DelAt(P, KeyIndex(P, name))

---------------------------------------------------------------------------
(* services/project_manager.py.  Each method is an operator from the dict  *)
(* P before the call and the arguments to [err, projects]: the error       *)
(* raised (OK if none) and the dict after the call.                        *)

Raised(msg, P) == [err |-> msg, projects |-> P]
Returned(P) == [err |-> OK, projects |-> P]

\* create_project with the capacity test written > instead of >=
create_project_CapOffByOne(P, name, description) ==
    IF name = <<>> \/ Strip(name) = <<>>
    THEN Raised(EmptyName, P)
    ELSE IF Len(P) > MAX_NUMBER_OF_PROJECTS
    THEN Raised(ProjectCapacityExceeded, P)
    ELSE IF HasKey(P, name)
    THEN Raised(DuplicateName, P)
    ELSE Returned(DictSet(P, name, Project(name, description)))

\* create_project with the duplicate test made before the capacity test
create_project_DuplicateFirst(P, name, description) ==
    IF name = <<>> \/ Strip(name) = <<>>
    THEN Raised(EmptyName, P)
    ELSE IF HasKey(P, name)
    THEN Raised(DuplicateName, P)
    ELSE IF Len(P) >= MAX_NUMBER_OF_PROJECTS
    THEN Raised(ProjectCapacityExceeded, P)
    ELSE Returned(DictSet(P, name, Project(name, description)))

\* ProjectManager.create_project
create_project(P, name, description) ==
    IF name = <<>> \/ Strip(name) = <<>>
    THEN Raised(EmptyName, P)
    ELSE IF Len(P) >= MAX_NUMBER_OF_PROJECTS
    THEN Raised(ProjectCapacityExceeded, P)
    ELSE IF HasKey(P, name)
    THEN Raised(DuplicateName, P)
    ELSE Returned(DictSet(P, name, Project(name, description)))

\* delete_project that removes the oldest entry instead of the named one
delete_project_Oldest(P, name) ==
    IF ~HasKey(P, name)
    THEN Raised(ProjectNotFound, P)
    ELSE Returned(Tail(P))

\* ProjectManager.delete_project
delete_project(P, name) ==
    IF ~HasKey(P, name)
    THEN Raised(ProjectNotFound, P)
    ELSE Returned(DictDel(P, name))

\* ProjectManager.list_projects: list(self.projects.values())
list_projects(P) == [i \in 1..Len(P) |-> P[i].proj]

\* ProjectManager.get_project: the project returned, or the error raised
get_project(P, name) ==
    IF ~HasKey(P, name)
    THEN Raise(ProjectNotFound)
    ELSE Return(DictGet(P, name))

\* update_project that stores a fresh Project under the new name instead of
\* re-keying the old one
update_project_RenameFresh(P, current_name, new_name, new_description) ==
    IF ~HasKey(P, current_name)
    THEN Raised(ProjectNotFound, P)
    ELSE
      LET proj == DictGet(P, current_name)
          clean_new == Strip(Val(new_name))
          rename == new_name # None /\ clean_new # current_name
          P1 == IF rename
                THEN DictDel(DictSet(P, clean_new,
                                     Project(clean_new, proj.description)),
                             current_name)
                ELSE P
          key1 == IF rename THEN clean_new ELSE current_name
          P2 == IF new_description # None
                THEN DictSet(P1, key1,
                       [DictGet(P1, key1) EXCEPT
                          !.description = Val(new_description)])
                ELSE P1
      IN  IF new_name # None /\ clean_new = <<>>
          THEN Raised(NewNameEmpty, P)
          ELSE IF new_name # None /\ clean_new # current_name
                  /\ HasKey(P, clean_new)
          THEN Raised(NewNameExists, P)
          ELSE Returned(P2)

\* update_project that assigns the description before it looks at the name
update_project_DescriptionFirst(P, current_name, new_name, new_description) ==
    IF ~HasKey(P, current_name)
    THEN Raised(ProjectNotFound, P)
    ELSE
      LET P0 == IF new_description # None
                THEN DictSet(P, current_name,
                       [DictGet(P, current_name) EXCEPT
                          !.description = Val(new_description)])
                ELSE P
          proj == DictGet(P0, current_name)
          clean_new == Strip(Val(new_name))
          rename == new_name # None /\ clean_new # current_name
          P1 == IF rename
                THEN DictDel(DictSet(P0, clean_new,
                                     [proj EXCEPT !.name = clean_new]),
                             current_name)
                ELSE P0
      IN  IF new_name # None /\ clean_new = <<>>
          THEN Raised(NewNameEmpty, P0)
          ELSE IF new_name # None /\ clean_new # current_name
                  /\ HasKey(P, clean_new)
          THEN Raised(NewNameExists, P0)
          ELSE Returned(P1)

\* ProjectManager.update_project
update_project(P, current_name, new_name, new_description) ==
    IF ~HasKey(P, current_name)
    THEN Raised(ProjectNotFound, P)
    ELSE
      LET proj == DictGet(P, current_name)
          clean_new == Strip(Val(new_name))
          rename == new_name # None /\ clean_new # current_name
          \* proj.name = clean_new; self.projects[clean_new] = proj;
          \* del self.projects[current_name]
          P1 == IF rename
                THEN DictDel(DictSet(P, clean_new,
                                     [proj EXCEPT !.name = clean_new]),
                             current_name)
                ELSE P
          key1 == IF rename THEN clean_new ELSE current_name
          \* proj.description = new_description
          P2 == IF new_description # None
                THEN DictSet(P1, key1,
                       [DictGet(P1, key1) EXCEPT
                          !.description = Val(new_description)])
                ELSE P1
      IN  IF new_name # None /\ clean_new = <<>>
          THEN Raised(NewNameEmpty, P)
          ELSE IF new_name # None /\ clean_new # current_name
                  /\ HasKey(P, clean_new)
          THEN Raised(NewNameExists, P)
          ELSE Returned(P2)

\* add_task_to_project that stores the trimmed title
add_task_to_project_TrimsTitle(P, project_name, title, description, deadline, status) ==
    LET got == get_project(P, project_name) IN
    IF got.err # OK THEN Raised(got.err, P)
    ELSE IF Strip(title) = <<>> THEN Raised(EmptyTitle, P)
    ELSE IF Len(title) > MaxTitleLen THEN Raised(TitleTooLong, P)
    ELSE IF Len(description) > MaxDescriptionLen
    THEN Raised(DescriptionTooLong, P)
    ELSE IF Strip(deadline) = <<>> THEN Raised(MissingDeadline, P)
    ELSE IF ~ParsesYmd(deadline) THEN Raised(InvalidDeadline, P)
    ELSE IF status \notin Statuses THEN Raised(InvalidStatus, P)
    ELSE
      LET added == add_task(got.val,
                            Task(Strip(title), description, status, deadline))
      IN  IF added.err # OK THEN Raised(added.err, P)
          ELSE Returned(DictSet(P, project_name, added.val))

\* add_task_to_project with the description measured before the title
add_task_to_project_DescriptionFirst(P, project_name, title, description, deadline, status) ==
    LET got == get_project(P, project_name) IN
    IF got.err # OK THEN Raised(got.err, P)
    ELSE IF Len(description) > MaxDescriptionLen
    THEN Raised(DescriptionTooLong, P)
    ELSE IF Strip(title) = <<>> THEN Raised(EmptyTitle, P)
    ELSE IF Len(title) > MaxTitleLen THEN Raised(TitleTooLong, P)
    ELSE IF Strip(deadline) = <<>> THEN Raised(MissingDeadline, P)
    ELSE IF ~ParsesYmd(deadline) THEN Raised(InvalidDeadline, P)
    ELSE IF status \notin Statuses THEN Raised(InvalidStatus, P)
    ELSE
      LET added == add_task(got.val,
                            Task(title, description, status, deadline))
      IN  IF added.err # OK THEN Raised(added.err, P)
          ELSE Returned(DictSet(P, project_name, added.val))

\* ProjectManager.add_task_to_project
add_task_to_project(P, project_name, title, description, deadline, status) ==
    LET got == get_project(P, project_name) IN
    IF got.err # OK THEN Raised(got.err, P)
    ELSE IF Strip(title) = <<>> THEN Raised(EmptyTitle, P)
    ELSE IF Len(title) > MaxTitleLen THEN Raised(TitleTooLong, P)
    ELSE IF Len(description) > MaxDescriptionLen
    THEN Raised(DescriptionTooLong, P)
    ELSE IF Strip(deadline) = <<>> THEN Raised(MissingDeadline, P)
    ELSE IF ~ParsesYmd(deadline) THEN Raised(InvalidDeadline, P)
    ELSE IF status \notin Statuses THEN Raised(InvalidStatus, P)
    ELSE
      LET added == add_task(got.val,
                            Task(title, description, status, deadline))
      IN  IF added.err # OK THEN Raised(added.err, P)
          ELSE Returned(DictSet(P, project_name, added.val))

\* ProjectManager.remove_task_from_project
remove_task_from_project(P, project_name, task_title) ==
    LET got == get_project(P, project_name) IN
    IF got.err # OK THEN Raised(got.err, P)
    ELSE
      LET removed == remove_task(got.val, task_title)
      IN  IF removed.err # OK THEN Raised(removed.err, P)
          ELSE Returned(DictSet(P, project_name, removed.val))

\* update_task that updates the first task titled task_title of every
\* project, not only of the project named
update_task_EveryProject(P, project_name, task_title, new_title, new_description, new_deadline, new_status) ==
    LET got == get_project(P, project_name) IN
    IF got.err # OK THEN Raised(got.err, P)
    ELSE
      LET found == get_task(got.val, task_title) IN
      IF found.err # OK THEN Raised(found.err, P)
      ELSE
        LET bad_deadline ==
                new_deadline # None /\ ~ParsesYmd(Val(new_deadline))
            bad_status ==
                TruthyTag(new_status) /\ Val(new_status) \notin Statuses
            Updated(t0) ==
                LET t1 == IF Truthy(new_title)
                          THEN [t0 EXCEPT !.title = Strip(Val(new_title))]
                          ELSE t0
                    t2 == IF new_description # None
                          THEN [t1 EXCEPT !.description = Val(new_description)]
                          ELSE t1
                    t3 == IF new_deadline # None
                          THEN [t2 EXCEPT !.deadline = Val(new_deadline)]
                          ELSE t2
                IN  IF bad_deadline THEN t2
                    ELSE IF ~TruthyTag(new_status) \/ bad_status THEN t3
                    ELSE [t3 EXCEPT !.status = Val(new_status)]
            Q == [k \in 1..Len(P) |->
                    LET tasks == P[k].proj.tasks IN
                    IF TitleMatches(tasks, task_title) = {} THEN P[k]
                    ELSE [P[k] EXCEPT
                            !.proj.tasks[FirstMatch(tasks, task_title)]
                                = Updated(@)]]
        IN  IF bad_deadline THEN Raised(InvalidDeadlineFormat, Q)
            ELSE IF bad_status THEN Raised(InvalidStatus, Q)
            ELSE Returned(Q)

\* update_task that tests the deadline and the status before it assigns
\* any field, so that a failing call changes nothing
update_task_TestsFirst(P, project_name, task_title, new_title, new_description, new_deadline, new_status) ==
    LET got == get_project(P, project_name) IN
    IF got.err # OK THEN Raised(got.err, P)
    ELSE
      LET found == get_task(got.val, task_title) IN
      IF found.err # OK THEN Raised(found.err, P)
      ELSE
        LET i == found.val
            Put(task) ==
                DictSet(P, project_name,
                        [got.val EXCEPT !.tasks[i] = task])
            t0 == got.val.tasks[i]
            t1 == IF Truthy(new_title)
                  THEN [t0 EXCEPT !.title = Strip(Val(new_title))]
                  ELSE t0
            t2 == IF new_description # None
                  THEN [t1 EXCEPT !.description = Val(new_description)]
                  ELSE t1
            t3 == IF new_deadline # None
                  THEN [t2 EXCEPT !.deadline = Val(new_deadline)]
                  ELSE t2
            marked == mark_status(t3, Val(new_status))
        IN  IF new_deadline # None /\ ~ParsesYmd(Val(new_deadline))
            THEN Raised(InvalidDeadlineFormat, P)
            ELSE IF ~TruthyTag(new_status) THEN Returned(Put(t3))
            ELSE IF marked.err # OK THEN Raised(marked.err, P)
            ELSE Returned(Put(marked.val))

\* update_task that assigns the deadline before it parses it
update_task_DeadlineFirst(P, project_name, task_title, new_title, new_description, new_deadline, new_status) ==
    LET got == get_project(P, project_name) IN
    IF got.err # OK THEN Raised(got.err, P)
    ELSE
      LET found == get_task(got.val, task_title) IN
      IF found.err # OK THEN Raised(found.err, P)
      ELSE
        LET i == found.val
            Put(task) ==
                DictSet(P, project_name,
                        [got.val EXCEPT !.tasks[i] = task])
            t0 == got.val.tasks[i]
            t1 == IF Truthy(new_title)
                  THEN [t0 EXCEPT !.title = Strip(Val(new_title))]
                  ELSE t0
            t2 == IF new_description # None
                  THEN [t1 EXCEPT !.description = Val(new_description)]
                  ELSE t1
            t3 == IF new_deadline # None
                  THEN [t2 EXCEPT !.deadline = Val(new_deadline)]
                  ELSE t2
            marked == mark_status(t3, Val(new_status))
        IN  IF new_deadline # None /\ ~ParsesYmd(Val(new_deadline))
            THEN Raised(InvalidDeadlineFormat, Put(t3))
            ELSE IF ~TruthyTag(new_status) THEN Returned(Put(t3))
            ELSE IF marked.err # OK THEN Raised(marked.err, Put(t3))
            ELSE Returned(Put(marked.val))

\* ProjectManager.update_task: the fields are assigned on the task object
\* one after the other, so what was assigned before a raise stays assigned
update_task(P, project_name, task_title, new_title, new_description, new_deadline, new_status) ==
    LET got == get_project(P, project_name) IN
    IF got.err # OK THEN Raised(got.err, P)
    ELSE
      LET found == get_task(got.val, task_title) IN
      IF found.err # OK THEN Raised(found.err, P)
      ELSE
        LET i == found.val
            Put(task) ==
                DictSet(P, project_name,
                        [got.val EXCEPT !.tasks[i] = task])
            t0 == got.val.tasks[i]
            t1 == IF Truthy(new_title)
                  THEN [t0 EXCEPT !.title = Strip(Val(new_title))]
                  ELSE t0
            t2 == IF new_description # None
                  THEN [t1 EXCEPT !.description = Val(new_description)]
                  ELSE t1
            t3 == IF new_deadline # None
                  THEN [t2 EXCEPT !.deadline = Val(new_deadline)]
                  ELSE t2
            marked == mark_status(t3, Val(new_status))
        IN  IF new_deadline # None /\ ~ParsesYmd(Val(new_deadline))
            THEN Raised(InvalidDeadlineFormat, Put(t2))
            ELSE IF ~TruthyTag(new_status) THEN Returned(Put(t3))
            ELSE IF marked.err # OK THEN Raised(marked.err, Put(t3))
            ELSE Returned(Put(marked.val))

---------------------------------------------------------------------------
(* The state machine: one action per manager method                        *)

\* the threads that may call the manager
Callers == {1, 2}

\* no call in flight
Idle == [pc |-> "idle"]

Init ==
    /\ projects = <<>>
    /\ op = "init"
    /\ result = OK
    /\ frames = [c \in Callers |-> Idle]

\* a method that runs from its first statement to its return in one step
Call(method, r) ==
    /\ projects' = r.projects
    /\ op' = method
    /\ result' = r.err
    /\ UNCHANGED frames

CreateProject(name, description) ==
    Call("create_project", create_project(projects, name, description))

DeleteProject(name) ==
    Call("delete_project", delete_project(projects, name))

GetProject(name) ==
    Call("get_project",
         [err |-> get_project(projects, name).err, projects |-> projects])

UpdateProject(current_name, new_name, new_description) ==
    Call("update_project",
         update_project(projects, current_name, new_name, new_description))

AddTaskToProject(project_name, title, description, deadline, status) ==
    Call("add_task_to_project",
         add_task_to_project(projects, project_name, title, description,
                             deadline, status))

RemoveTaskFromProject(project_name, task_title) ==
    Call("remove_task_from_project",
         remove_task_from_project(projects, project_name, task_title))

UpdateTask(project_name, task_title, new_title, new_description, new_deadline, new_status) ==
    Call("update_task",
         update_task(projects, project_name, task_title, new_title,
                     new_description, new_deadline, new_status))

---------------------------------------------------------------------------
(* update_project statement by statement: one action for the tests of      *)
(* lines 43-53 and one for each statement that writes the dict or the      *)
(* Project object.  The local proj is a reference; the frame keeps its     *)
(* identity and the object is read and written through the dict entries    *)
(* that refer to it.                                                       *)

\* the result of a call that has not returned yet
InFlight == "in flight"

\* the identities of the objects the dict P refers to
Refs(P) == {P[i].ref : i \in 1..Len(P)}

\* the identity of self.projects[name]
RefOf(P, name) == P[KeyIndex(P, name)].ref

\* the identity of an object just constructed: one that no live object has
NewRef(P) == CHOOSE r \in 1..(Len(P) + 1) : r \notin Refs(P)

\* the dict P whose last entry, if create_project has just stored it, gets
\* the identity of the Project it constructed
Allocated(P) ==
    IF P # <<>> /\ "ref" \notin DOMAIN P[Len(P)]
    THEN [P EXCEPT ![Len(P)] = [key |-> @.key, proj |-> @.proj,
                                ref |-> NewRef(SubSeq(P, 1, Len(P) - 1))]]
    ELSE P

\* the object with identity r
Deref(P, r) == P[CHOOSE i \in 1..Len(P) : P[i].ref = r].proj

\* proj.name = name left out: the object keeps its name
SetName_Skipped(P, r, name) == P

\* proj.name = name on the object r: every entry that refers to r shows it
SetName(P, r, name) ==
    [i \in 1..Len(P) |->
        IF P[i].ref = r THEN [P[i] EXCEPT !.proj.name = name] ELSE P[i]]

\* proj.description = description on the object r
SetDescription(P, r, description) ==
    [i \in 1..Len(P) |->
        IF P[i].ref = r THEN [P[i] EXCEPT !.proj.description = description]
        ELSE P[i]]

\* self.projects[name] = proj with a copy of the object instead of the object
DictSetRef_Copy(P, name, r) ==
    LET e == [key |-> name, proj |-> Deref(P, r), ref |-> NewRef(P)] IN
    IF HasKey(P, name) THEN [P EXCEPT ![KeyIndex(P, name)] = e]
    ELSE Append(P, e)

\* self.projects[name] = proj, proj being the object r
DictSetRef(P, name, r) ==
    LET e == [key |-> name, proj |-> Deref(P, r), ref |-> r] IN
    IF HasKey(P, name) THEN [P EXCEPT ![KeyIndex(P, name)] = e]
    ELSE Append(P, e)

\* clean_new = new_name.strip()
CleanNew(f) == Strip(Val(f.new_name))

\* create_project in one step, in a dict whose entries carry identities
CreateProjectObject(name, description) ==
    LET r == create_project(projects, name, description) IN
    Call("create_project", [r EXCEPT !.projects = Allocated(@)])

\* lines 43-53: the tests and proj = self.projects[current_name], up to the
\* first statement that writes
UpdateProjectEnter(c, current_name, new_name, new_description) ==
    /\ frames[c] = Idle
    /\ op' = "update_project"
    /\ projects' = projects
    /\ LET clean_new == Strip(Val(new_name))
           rename == new_name # None /\ clean_new # current_name
       IN  IF ~HasKey(projects, current_name)
           THEN result' = ProjectNotFound /\ UNCHANGED frames
           ELSE IF new_name # None /\ clean_new = <<>>
           THEN result' = NewNameEmpty /\ UNCHANGED frames
           ELSE IF rename /\ HasKey(projects, clean_new)
           THEN result' = NewNameExists /\ UNCHANGED frames
           ELSE /\ result' = InFlight
                /\ frames' = [frames EXCEPT ![c] =
                                [pc |-> IF rename THEN "L54" ELSE "L58",
                                 current_name |-> current_name,
                                 new_name |-> new_name,
                                 new_description |-> new_description,
                                 proj |-> RefOf(projects, current_name)]]

\* line 54: proj.name = clean_new
UpdateProjectSetName(c) ==
    /\ frames[c].pc = "L54"
    /\ projects' = SetName(projects, frames[c].proj, CleanNew(frames[c]))
    /\ frames' = [frames EXCEPT ![c].pc = "L55"]
    /\ UNCHANGED <<op, result>>

\* line 55: self.projects[clean_new] = proj
UpdateProjectInsert(c) ==
    /\ frames[c].pc = "L55"
    /\ projects' = DictSetRef(projects, CleanNew(frames[c]), frames[c].proj)
    /\ frames' = [frames EXCEPT ![c].pc = "L56"]
    /\ UNCHANGED <<op, result>>

\* line 56: del self.projects[current_name]
UpdateProjectDelete(c) ==
    /\ frames[c].pc = "L56"
    /\ projects' = DictDel(projects, frames[c].current_name)
    /\ frames' = [frames EXCEPT ![c].pc = "L58"]
    /\ UNCHANGED <<op, result>>

\* lines 58-59 and the return: proj.description = new_description, if given
UpdateProjectDescription(c) ==
    /\ frames[c].pc = "L58"
    /\ projects' = IF frames[c].new_description # None
                   THEN SetDescription(projects, frames[c].proj,
                                       Val(frames[c].new_description))
                   ELSE projects
    /\ frames' = [frames EXCEPT ![c] = Idle]
    /\ result' = OK
    /\ UNCHANGED op

---------------------------------------------------------------------------
(* create_project statement by statement, for callers whose calls may      *)
(* interleave: one action for the tests of lines 19-24 and one for the     *)
(* construction, the store and the return of lines 25-27.  A caller may    *)
(* make its call inside a mutual-exclusion region on the whole dict, which *)
(* it enters before the first statement and leaves at the return or the    *)
(* raise.                                                                  *)

\* caller c has a create_project call between its tests and its store
Creating(c) == frames[c].pc = "L25"

\* no other caller is inside the mutual-exclusion region
MutexFree(c) ==
    \A c2 \in Callers \ {c} : ~(Creating(c2) /\ frames[c2].locked)

\* the identities of the Project objects the callers hold from their calls
Held == {frames[c].proj : c \in {c2 \in Callers : frames[c2].pc = "returned"}}

\* the identity of a Project just constructed: one that no object in the
\* dict or in a caller's hands has
NewObject ==
    CHOOSE r \in 1..(Len(projects) + Cardinality(Callers) + 1) :
       r \notin Refs(projects) \cup Held

\* self.projects[name] = the new object obj with identity r
DictSetObject(P, name, obj, r) ==
    LET e == [key |-> name, proj |-> obj, ref |-> r] IN
    IF HasKey(P, name) THEN [P EXCEPT ![KeyIndex(P, name)] = e]
    ELSE Append(P, e)

\* lines 19-24 with the capacity test written > instead of >=
CreateProjectTests_CapOffByOne(c, name, description, locked) ==
    /\ frames[c].pc \in {"idle", "returned"}
    /\ locked => MutexFree(c)
    /\ op' = "create_project"
    /\ projects' = projects
    /\ IF name = <<>> \/ Strip(name) = <<>>
       THEN result' = EmptyName /\ frames' = [frames EXCEPT ![c] = Idle]
       ELSE IF Len(projects) > MAX_NUMBER_OF_PROJECTS
       THEN /\ result' = ProjectCapacityExceeded
            /\ frames' = [frames EXCEPT ![c] = Idle]
       ELSE IF HasKey(projects, name)
       THEN result' = DuplicateName /\ frames' = [frames EXCEPT ![c] = Idle]
       ELSE /\ result' = InFlight
            /\ frames' = [frames EXCEPT ![c] =
                            [pc |-> "L25", name |-> name,
                             description |-> description, locked |-> locked]]

\* lines 19-24: the three tests, each raising or falling through
CreateProjectTests(c, name, description, locked) ==
    /\ frames[c].pc \in {"idle", "returned"}
    /\ locked => MutexFree(c)
    /\ op' = "create_project"
    /\ projects' = projects
    /\ IF name = <<>> \/ Strip(name) = <<>>
       THEN result' = EmptyName /\ frames' = [frames EXCEPT ![c] = Idle]
       ELSE IF Len(projects) >= MAX_NUMBER_OF_PROJECTS
       THEN /\ result' = ProjectCapacityExceeded
            /\ frames' = [frames EXCEPT ![c] = Idle]
       ELSE IF HasKey(projects, name)
       THEN result' = DuplicateName /\ frames' = [frames EXCEPT ![c] = Idle]
       ELSE /\ result' = InFlight
            /\ frames' = [frames EXCEPT ![c] =
                            [pc |-> "L25", name |-> name,
                             description |-> description, locked |-> locked]]

\* lines 25-27: proj = Project(...); self.projects[name] = proj; return proj
CreateProjectStore(c) ==
    /\ Creating(c)
    /\ projects' = DictSetObject(projects, frames[c].name,
                                 Project(frames[c].name, frames[c].description),
                                 NewObject)
    /\ frames' = [frames EXCEPT ![c] = [pc |-> "returned", proj |-> NewObject]]
    /\ op' = "create_project"
    /\ result' = OK

---------------------------------------------------------------------------
(* main.py, cli_loop: the interactive shell around one manager.  One       *)
(* action is one pass of the while loop: the read of the menu choice       *)
(* (line 26), the branch of the choice with its reads and its manager      *)
(* calls, and the except clause that ends the pass.  input() returns a     *)
(* line, Some(s), or raises EOFError when the input has ended, Eof.  The   *)
(* frame of the shell holds the position of the loop: "idle" at the read   *)
(* of line 26, "exited" after the break of choice 10, "EOFError" after     *)
(* the exception left cli_loop.  op is the branch taken and result is      *)
(* what the pass reported.  Status lines are tags without surrounding      *)
(* whitespace.  cli_loop runs in caller 1.                                 *)

\* input() when the input has ended: EOFError is raised
Eof == {}

\* x or None
OrNone(s) == IF s = <<>> THEN None ELSE Some(s)

\* except Exception (lines 109-110): an EOFError raised by a read of the
\* branch is reported and the pass ends
Unexpected(P) ==
    [err |-> "Unexpected error: EOF when reading a line", projects |-> P]

\* the loop is at the read of the menu choice
LoopRunning == frames[1].pc = "idle"

\* the choices of the menu, and the characters of each
MenuChoices == {"1", "2", "3", "4", "5", "6", "7", "8", "9", "10"}
Literal(label) == IF label = "10" THEN <<"1", "0">> ELSE <<label>>

\* the lines the reads of SpecCli return: menu choices as they are, padded,
\* unknown and empty; names, titles, descriptions, deadlines and statuses,
\* and the end of the input at a first and at a later read of a branch
CliInputs ==
    [choices |-> {Some(Literal(label)) : label \in MenuChoices}
                   \cup {Some(<<" ", "1", "0", " ">>), Some(<<" ", "3">>),
                         Some(<<"1", "1">>), Some(<<"x">>), Some(<<>>)},
     names |-> {Some(<<"a">>), Some(<<" ", "b">>), Eof},
     new_names |-> {Some(<<>>), Some(<<"b">>), Eof},
     descriptions |-> {Some(<<>>), Eof},
     titles |-> {Some(<<"t">>), Some(<<>>)},
     new_titles |-> {Some(<<>>), Some(<<"u">>)},
     deadlines |-> {Some(<<"2", "0", "2", "5", "-", "0", "1", "-", "0", "1">>),
                    Some(<<"n", "o", "t", "-", "a", "-", "d", "a", "t", "e">>)},
     new_deadlines |-> {Some(<<>>),
                        Some(<<"n", "o", "t", "-", "a", "-", "d", "a", "t", "e">>)},
     statuses |-> {Some(""), Some("done"), Some("bad"), Eof}]

\* lines 26-110 for a choice that was read and selects the branch label:
\* the branch ran to r, the except clauses reported a raised error, and the
\* loop goes round
Pass(label, r) ==
    /\ LoopRunning
    /\ \E choice \in CliInputs.choices : Strip(Val(choice)) = Literal(label)
    /\ projects' = r.projects
    /\ op' = label
    /\ result' = r.err
    /\ UNCHANGED frames

\* line 26: the read of the menu choice is outside the try statement, so
\* its EOFError leaves cli_loop and ends the process
CliChoiceEof ==
    /\ LoopRunning
    /\ frames' = [frames EXCEPT ![1] = [pc |-> "EOFError"]]
    /\ op' = "eof"
    /\ result' = "EOFError"
    /\ UNCHANGED projects

\* lines 28-32
CliCreateProject(name, desc) ==
    Pass("1",
         IF Eof \in {name, desc} THEN Unexpected(projects)
         ELSE create_project(projects, Strip(Val(name)), Strip(Val(desc))))

\* lines 33-39
CliListProjects ==
    Pass("2", Returned(projects))

\* lines 40-43
CliDeleteProject(name) ==
    Pass("3",
         IF name = Eof THEN Unexpected(projects)
         ELSE delete_project(projects, Strip(Val(name))))

\* lines 44-51
CliAddTask(pname, title, desc, deadline, status) ==
    Pass("4",
         IF Eof \in {pname, title, desc, deadline} \/ status = Eof
         THEN Unexpected(projects)
         ELSE add_task_to_project(projects, Strip(Val(pname)),
                                  Strip(Val(title)), Strip(Val(desc)),
                                  Strip(Val(deadline)), IF TruthyTag(status) THEN Val(status)
                                  ELSE "todo"))

\* lines 52-59
CliListTasks(pname) ==
    Pass("5",
         IF pname = Eof THEN Unexpected(projects)
         ELSE [err |-> get_project(projects, Strip(Val(pname))).err,
               projects |-> projects])

\* lines 60-64
CliRemoveTask(pname, ttitle) ==
    Pass("6",
         IF Eof \in {pname, ttitle} THEN Unexpected(projects)
         ELSE remove_task_from_project(projects, Strip(Val(pname)),
                                       Strip(Val(ttitle))))

\* manager.get_project(pname).get_task(ttitle) of lines 68 and 84: the
\* error raised, or OK
Lookup(P, pname, ttitle) ==
    LET got == get_project(P, pname) IN
    IF got.err # OK THEN got.err ELSE get_task(got.val, ttitle).err

\* lines 65-80
CliUpdateTask(pname, ttitle, new_title, new_desc, new_deadline, new_status) ==
    Pass("7",
         IF Eof \in {pname, ttitle} THEN Unexpected(projects)
         ELSE
           LET pn == Strip(Val(pname))
               tt == Strip(Val(ttitle))
           IN  IF Lookup(projects, pn, tt) # OK
               THEN Raised(Lookup(projects, pn, tt), projects)
               ELSE IF Eof \in {new_title, new_desc, new_deadline}
                       \/ new_status = Eof
               THEN Unexpected(projects)
               ELSE update_task(projects, pn, tt,
                                OrNone(Strip(Val(new_title))),
                                OrNone(Strip(Val(new_desc))),
                                OrNone(Strip(Val(new_deadline))),
                                IF TruthyTag(new_status) THEN new_status
                                ELSE None))

\* lines 81-88
CliChangeStatus(pname, ttitle, new_status) ==
    Pass("8",
         IF Eof \in {pname, ttitle} THEN Unexpected(projects)
         ELSE
           LET pn == Strip(Val(pname))
               tt == Strip(Val(ttitle))
           IN  IF Lookup(projects, pn, tt) # OK
               THEN Raised(Lookup(projects, pn, tt), projects)
               ELSE IF new_status = Eof THEN Unexpected(projects)
               ELSE update_task(projects, pn, tt, None, None, None,
                                IF TruthyTag(new_status) THEN new_status
                                ELSE Some("todo")))

\* lines 89-101
CliUpdateProject(current_name, new_name, new_desc) ==
    Pass("9",
         IF current_name = Eof THEN Unexpected(projects)
         ELSE
           LET cn == Strip(Val(current_name)) IN
           IF get_project(projects, cn).err # OK
           THEN Raised(get_project(projects, cn).err, projects)
           ELSE IF Eof \in {new_name, new_desc} THEN Unexpected(projects)
           ELSE update_project(projects, cn,
                               OrNone(Strip(Val(new_name))),
                               OrNone(Strip(Val(new_desc)))))

\* lines 102-104: choice 10 breaks out of the loop
CliExit ==
    /\ LoopRunning
    /\ \E choice \in CliInputs.choices : Strip(Val(choice)) = Literal("10")
    /\ frames' = [frames EXCEPT ![1] = [pc |-> "exited"]]
    /\ op' = "10"
    /\ result' = OK
    /\ UNCHANGED projects

\* lines 105-106: any other choice
CliInvalid(choice) ==
    /\ LoopRunning
    /\ \A label \in MenuChoices : Strip(Val(choice)) # Literal(label)
    /\ op' = "invalid"
    /\ result' = "Invalid selection."
    /\ UNCHANGED <<projects, frames>>

---------------------------------------------------------------------------
(* Inputs                                                                  *)

sA == <<"a">>
sB == <<"b">>
sT == <<"t">>
sU == <<"u">>
Date1 == <<"2", "0", "2", "5", "-", "0", "1", "-", "0", "1">>
Date2 == <<"2", "0", "2", "4", "-", "2", "-", "2", "9">>
NotADate == <<"n", "o", "t", "-", "a", "-", "d", "a", "t", "e">>

\* status='todo', the default of add_task_to_project, when none is given
DefaultStatus == "todo"

---------------------------------------------------------------------------
(* Spec: every method of the manager, on two project names and two task    *)
(* titles.                                                                 *)

Names == {<<>>, sA, sB}
NewNames == {None, Some(<<" ", "b">>)}
NewDescriptions == {None, Some(<<>>)}
Titles == {<<>>, sT, sU}
NewTitles == {None, Some(sT)}
Deadlines == {Date1, NotADate}
StatusArgs == {DefaultStatus, "bad"}

Next ==
    \/ \E name \in Names : CreateProject(name, <<"d">>)
    \/ \E name \in Names : DeleteProject(name)
    \/ \E name \in Names : GetProject(name)
    \/ \E cur \in Names, n \in NewNames, d \in NewDescriptions :
          UpdateProject(cur, n, d)
    \/ \E pn \in Names, t \in Titles, dl \in Deadlines, st \in StatusArgs :
          AddTaskToProject(pn, t, <<>>, dl, st)
    \/ \E pn \in Names, t \in Titles : RemoveTaskFromProject(pn, t)
    \/ \E pn \in Names, t \in Titles, nt \in NewTitles :
          UpdateTask(pn, t, nt, None, None, None)

Spec == Init /\ [][Next]_vars

---------------------------------------------------------------------------
(* SpecNames: create_project, delete_project and update_project alone, on  *)
(* more names than the cap admits.                                         *)

NameArgs == {<<>>, <<" ">>, sA, sB, <<" ", "a">>, <<"c">>}
NameNewNames == {None, Some(<<" ">>), Some(sB), Some(<<" ", "e", " ">>)}
NameNewDescriptions == {None, Some(<<"d">>)}

NextNames ==
    \/ \E name \in NameArgs : CreateProject(name, <<>>)
    \/ \E name \in NameArgs : DeleteProject(name)
    \/ \E cur \in NameArgs, n \in NameNewNames, d \in NameNewDescriptions :
          UpdateProject(cur, n, d)

SpecNames == Init /\ [][NextNames]_vars

---------------------------------------------------------------------------
(* SpecProjects: the project methods on projects that differ in            *)
(* description and tasks.                                                  *)

ProjectNames == {<<" ">>, sA, sB}
ProjectNewNames == {None, Some(<<" ">>), Some(sB), Some(<<" ", "c", " ">>)}
ProjectNewDescriptions == {None, Some(<<>>)}
ProjectTaskNames == {sA, sB, <<"c">>}
ProjectTitles == {sT, sU}

NextProjects ==
    \/ \E name \in ProjectNames : CreateProject(name, <<"d">>)
    \/ \E name \in ProjectNames : DeleteProject(name)
    \/ \E name \in ProjectNames : GetProject(name)
    \/ \E cur \in ProjectNames \cup {<<"c">>}, n \in ProjectNewNames,
          d \in ProjectNewDescriptions :
          UpdateProject(cur, n, d)
    \/ \E pn \in ProjectTaskNames, t \in ProjectTitles :
          AddTaskToProject(pn, t, <<>>, Date1, DefaultStatus)
    \/ \E pn \in ProjectTaskNames, t \in ProjectTitles :
          RemoveTaskFromProject(pn, t)

SpecProjects == Init /\ [][NextProjects]_vars

---------------------------------------------------------------------------
(* SpecTasks: add_task_to_project on one project, over titles,             *)
(* descriptions, deadlines and statuses on both sides of every check.      *)

TaskProjectNames == {sA, sB}
TaskTitles ==
    {<<>>, Repeat(" ", MaxTitleLen + 1), sT, sU, <<" ", "t">>,
     Repeat("x", MaxTitleLen + 1)}
TaskDescriptions ==
    {<<>>, Repeat("y", MaxDescriptionLen), Repeat("y", MaxDescriptionLen + 1)}
TaskDeadlines == {<<>>, <<" ">>, Date2, NotADate}
TaskStatusArgs == {DefaultStatus, "done", "bad"}

NextTasks ==
    \/ CreateProject(sA, <<>>)
    \/ \E pn \in TaskProjectNames, t \in TaskTitles, d \in TaskDescriptions,
          dl \in TaskDeadlines, st \in TaskStatusArgs :
          AddTaskToProject(pn, t, d, dl, st)
    \/ \E pn \in TaskProjectNames, t \in TaskTitles :
          RemoveTaskFromProject(pn, t)

SpecTasks == Init /\ [][NextTasks]_vars

---------------------------------------------------------------------------
(* SpecFields: update_task on the tasks of one project, over deadlines and *)
(* statuses on both sides of their checks, with a rename that makes two    *)
(* tasks share a title.                                                    *)

FieldTitles == {sT, sU}
FieldDeadlines == {<<>>, Date1, NotADate}
FieldStatusArgs == {DefaultStatus, "bad"}
FieldNewTitles == {None, Some(sT)}
FieldNewDeadlines == {None, Some(<<>>), Some(Date2), Some(NotADate)}
FieldNewStatuses ==
    {None, Some(""), Some("todo"), Some("doing"), Some("done"), Some("bad")}

NextFields ==
    \/ CreateProject(sA, <<>>)
    \/ \E t \in FieldTitles, dl \in FieldDeadlines, st \in FieldStatusArgs :
          AddTaskToProject(sA, t, <<>>, dl, st)
    \/ \E t \in FieldTitles : RemoveTaskFromProject(sA, t)
    \/ \E t \in FieldTitles, nt \in FieldNewTitles, ndl \in FieldNewDeadlines,
          ns \in FieldNewStatuses :
          UpdateTask(sA, t, nt, None, ndl, ns)

SpecFields == Init /\ [][NextFields]_vars

---------------------------------------------------------------------------
(* SpecTitles: update_task on the tasks of one project, over new titles    *)
(* and descriptions that are absent, empty, blank, padded and too long.    *)

TitleArgs == {sT, sU}
TitleLookups == {<<>>, sT, sU}
TitleNewTitles ==
    {None, Some(<<>>), Some(<<" ">>), Some(<<" ", "u", " ">>),
     Some(Repeat("x", MaxTitleLen + 1))}
TitleNewDescriptions ==
    {None, Some(<<>>), Some(Repeat("y", MaxDescriptionLen + 1))}

NextTitles ==
    \/ CreateProject(sA, <<>>)
    \/ \E t \in TitleArgs : AddTaskToProject(sA, t, <<"d">>, Date1, DefaultStatus)
    \/ \E t \in TitleLookups : RemoveTaskFromProject(sA, t)
    \/ \E t \in TitleLookups, nt \in TitleNewTitles,
          nd \in TitleNewDescriptions :
          UpdateTask(sA, t, nt, nd, None, None)

SpecTitles == Init /\ [][NextTitles]_vars

---------------------------------------------------------------------------
(* SpecRename: update_project followed statement by statement, one call at *)
(* a time, between create_project and delete_project calls.                *)

RenameCallers == {1}
RenameNames == {sA, sB}
RenameNewNames == {None, Some(<<" ">>), Some(sB), Some(<<" ", "c", " ">>)}
RenameNewDescriptions == {None, Some(<<"e">>)}

\* no caller has a call in flight
Quiet == \A c \in Callers : frames[c] = Idle

NextRename ==
    \/ \E name \in RenameNames : Quiet /\ CreateProjectObject(name, <<"d">>)
    \/ \E name \in RenameNames \cup {<<"c">>} : Quiet /\ DeleteProject(name)
    \/ \E c \in RenameCallers, cur \in RenameNames \cup {<<"c">>},
          n \in RenameNewNames, d \in RenameNewDescriptions :
          Quiet /\ UpdateProjectEnter(c, cur, n, d)
    \/ \E c \in RenameCallers : UpdateProjectSetName(c)
    \/ \E c \in RenameCallers : UpdateProjectInsert(c)
    \/ \E c \in RenameCallers : UpdateProjectDelete(c)
    \/ \E c \in RenameCallers : UpdateProjectDescription(c)

SpecRename == Init /\ [][NextRename]_vars

---------------------------------------------------------------------------
(* SpecFrame: update_task on two projects that may hold tasks of the same  *)
(* title.                                                                  *)

FrameNames == {sA, sB}
FrameTitles == {sT, sU}
FrameNewTitles == {None, Some(sU)}
FrameNewDescriptions == {None, Some(<<"e">>)}
FrameNewDeadlines == {None, Some(NotADate)}
FrameNewStatuses == {None, Some("bad")}

NextFrame ==
    \/ \E name \in FrameNames : CreateProject(name, <<"d">>)
    \/ \E pn \in FrameNames, t \in FrameTitles :
          AddTaskToProject(pn, t, <<>>, Date1, DefaultStatus)
    \/ \E pn \in FrameNames, t \in FrameTitles, nt \in FrameNewTitles,
          nd \in FrameNewDescriptions, ndl \in FrameNewDeadlines,
          ns \in FrameNewStatuses :
          UpdateTask(pn, t, nt, nd, ndl, ns)

SpecFrame == Init /\ [][NextFrame]_vars

---------------------------------------------------------------------------
(* SpecUpdates: add_task_to_project, remove_task_from_project and          *)
(* update_task with all four fields, on the task list of one project.      *)

UpdateTitles == {sT, sU}
UpdateNewTitles == {None, Some(<<" ", "u">>)}
UpdateNewDescriptions == {None, Some(<<"e">>)}
UpdateNewDeadlines == {None, Some(Date2), Some(NotADate)}
UpdateNewStatuses == {None, Some("done"), Some("bad")}

NextUpdates ==
    \/ CreateProject(sA, <<>>)
    \/ \E t \in UpdateTitles :
          AddTaskToProject(sA, t, <<>>, Date1, DefaultStatus)
    \/ \E t \in UpdateTitles : RemoveTaskFromProject(sA, t)
    \/ \E t \in UpdateTitles, nt \in UpdateNewTitles,
          nd \in UpdateNewDescriptions, ndl \in UpdateNewDeadlines,
          ns \in UpdateNewStatuses :
          UpdateTask(sA, t, nt, nd, ndl, ns)

SpecUpdates == Init /\ [][NextUpdates]_vars

---------------------------------------------------------------------------
(* SpecInterleave: create_project calls of two callers, statement by       *)
(* statement, each call made inside the mutual-exclusion region or not.    *)

InterleaveNames == {<<>>, sA, sB, <<"c">>, <<"e">>}

NextInterleave ==
    \/ \E c \in Callers, name \in InterleaveNames, locked \in BOOLEAN :
          CreateProjectTests(c, name, <<>>, locked)
    \/ \E c \in Callers : CreateProjectStore(c)

SpecInterleave == Init /\ [][NextInterleave]_vars

---------------------------------------------------------------------------
(* SpecCli: the passes of cli_loop over one manager, on lines that are     *)
(* menu choices, padded, unknown or empty, on reads that return a line or  *)
(* meet the end of the input.                                              *)

NextCli ==
    \/ CliChoiceEof
    \/ \E name \in CliInputs.names, desc \in CliInputs.descriptions :
          CliCreateProject(name, desc)
    \/ CliListProjects
    \/ \E name \in CliInputs.names : CliDeleteProject(name)
    \/ \E pname \in CliInputs.names, title \in CliInputs.titles,
          desc \in CliInputs.descriptions,
          deadline \in CliInputs.deadlines, status \in CliInputs.statuses :
          CliAddTask(pname, title, desc, deadline, status)
    \/ \E pname \in CliInputs.names : CliListTasks(pname)
    \/ \E pname \in CliInputs.names, ttitle \in CliInputs.titles :
          CliRemoveTask(pname, ttitle)
    \/ \E pname \in CliInputs.names, ttitle \in CliInputs.titles,
          new_title \in CliInputs.new_titles,
          new_desc \in CliInputs.descriptions,
          new_deadline \in CliInputs.new_deadlines,
          new_status \in CliInputs.statuses :
          CliUpdateTask(pname, ttitle, new_title, new_desc, new_deadline,
                        new_status)
    \/ \E pname \in CliInputs.names, ttitle \in CliInputs.titles,
          new_status \in CliInputs.statuses :
          CliChangeStatus(pname, ttitle, new_status)
    \/ \E current_name \in CliInputs.names, new_name \in CliInputs.new_names,
          new_desc \in CliInputs.descriptions :
          CliUpdateProject(current_name, new_name, new_desc)
    \/ CliExit
    \/ \E choice \in CliInputs.choices : CliInvalid(choice)

SpecCli == Init /\ [][NextCli]_vars

---------------------------------------------------------------------------
(* Claims                                                                  *)

\* C1: in every state reachable by create_project, delete_project and
\* update_project calls the dict holds at most MAX_NUMBER_OF_PROJECTS
\* projects, and a create_project call with a new non-empty name made while
\* the dict holds MAX_NUMBER_OF_PROJECTS projects raises the capacity error
\* and leaves the dict as it was.
C1_ProjectCap ==
    /\ [](Len(projects) <= MAX_NUMBER_OF_PROJECTS)
    /\ [][op' = "create_project" =>
          \A name \in NameArgs :
            (/\ Strip(name) # <<>>
             /\ ~HasKey(projects, name)
             /\ Len(projects) = MAX_NUMBER_OF_PROJECTS
             /\ CreateProject(name, <<>>))
            => (result' = ProjectCapacityExceeded /\ projects' = projects)]_vars

\* a full dict on which create_project has just raised the capacity error,
\* while a non-empty name that is not a key was among the names it is given
C1_Witness ==
    /\ op = "create_project"
    /\ result = ProjectCapacityExceeded
    /\ Len(projects) = MAX_NUMBER_OF_PROJECTS
    /\ \E name \in NameArgs : Strip(name) # <<>> /\ ~HasKey(projects, name)

\* what the claims call valid fields of add_task_to_project
ValidTaskFields(title, description, deadline, status) ==
    /\ Strip(title) # <<>>
    /\ Len(title) <= MaxTitleLen
    /\ Len(description) <= MaxDescriptionLen
    /\ ParsesYmd(deadline)
    /\ status \in Statuses

TitlesOf(proj) == {proj.tasks[i].title : i \in 1..Len(proj.tasks)}

\* C2: in every state reachable by the manager's methods every project
\* holds at most MAX_NUMBER_OF_TASKS_PER_PROJECT tasks, and an
\* add_task_to_project call with valid fields and a title new to a project
\* that holds MAX_NUMBER_OF_TASKS_PER_PROJECT tasks raises the capacity
\* error and leaves the project's task list as it was.
C2_TaskCap ==
    /\ [](\A i \in 1..Len(projects) :
            Len(projects[i].proj.tasks) <= MAX_NUMBER_OF_TASKS_PER_PROJECT)
    /\ [][op' = "add_task_to_project" =>
          \A pn \in Names, t \in Titles, dl \in Deadlines, st \in StatusArgs :
            (/\ HasKey(projects, pn)
             /\ Len(DictGet(projects, pn).tasks)
                   = MAX_NUMBER_OF_TASKS_PER_PROJECT
             /\ t \notin TitlesOf(DictGet(projects, pn))
             /\ ValidTaskFields(t, <<>>, dl, st)
             /\ AddTaskToProject(pn, t, <<>>, dl, st))
            => (/\ result' = TaskCapacityExceeded
                /\ projects' = projects)]_vars

\* add_task_to_project has just raised the capacity error, every project
\* is full, and each of them lacks a valid title the call may give
C2_Witness ==
    /\ op = "add_task_to_project"
    /\ result = TaskCapacityExceeded
    /\ projects # <<>>
    /\ \A i \in 1..Len(projects) :
          /\ Len(projects[i].proj.tasks) = MAX_NUMBER_OF_TASKS_PER_PROJECT
          /\ \E t \in Titles : Strip(t) # <<>> /\ t \notin TitlesOf(projects[i].proj)

\* C3: after every operation no project's task list holds two tasks with
\* the same title.
C3_UniqueTitles ==
    \A i \in 1..Len(projects) :
       \A j, k \in 1..Len(projects[i].proj.tasks) :
          j # k => projects[i].proj.tasks[j].title
                      # projects[i].proj.tasks[k].title

\* C5 as stated: an add_task_to_project call with valid fields whose title
\* is the title of a task of the project raises the duplicate-title error,
\* also on a full project, and changes nothing.
C5_DuplicateTitleAlways ==
    [][op' = "add_task_to_project" =>
       \A pn \in Names, t \in Titles, dl \in Deadlines, st \in StatusArgs :
         (/\ HasKey(projects, pn)
          /\ t \in TitlesOf(DictGet(projects, pn))
          /\ ValidTaskFields(t, <<>>, dl, st)
          /\ AddTaskToProject(pn, t, <<>>, dl, st))
         => (result' = DuplicateTitle /\ projects' = projects)]_vars

\* C5 amended: such a call always fails and changes nothing; it raises the
\* duplicate-title error on a project below the task cap and the capacity
\* error on a full project.
C5_DuplicateTitleFails ==
    [][op' = "add_task_to_project" =>
       \A pn \in Names, t \in Titles, dl \in Deadlines, st \in StatusArgs :
         (/\ HasKey(projects, pn)
          /\ t \in TitlesOf(DictGet(projects, pn))
          /\ ValidTaskFields(t, <<>>, dl, st)
          /\ AddTaskToProject(pn, t, <<>>, dl, st))
         => (/\ projects' = projects
             /\ result' =
                  IF Len(DictGet(projects, pn).tasks)
                        >= MAX_NUMBER_OF_TASKS_PER_PROJECT
                  THEN TaskCapacityExceeded
                  ELSE DuplicateTitle)]_vars

\* add_task_to_project has just raised the capacity error while every
\* project is full and holds every valid title it is given: the call was
\* one with a duplicate title on a full project
C5_Witness ==
    /\ op = "add_task_to_project"
    /\ result = TaskCapacityExceeded
    /\ projects # <<>>
    /\ \A i \in 1..Len(projects) :
          /\ Len(projects[i].proj.tasks) = MAX_NUMBER_OF_TASKS_PER_PROJECT
          /\ \A t \in Titles : Strip(t) # <<>> => t \in TitlesOf(projects[i].proj)

\* the projects other than the one keyed name are the same before and
\* after the step, under the same keys
OthersUnchanged(name) ==
    \A q \in Keys(projects) \ {name} :
       HasKey(projects', q) /\ DictGet(projects', q) = DictGet(projects, q)

\* C4 as stated: a create_project call whose name is a key raises the
\* duplicate-name error, also on a full dict, and changes nothing.
C4_DuplicateNameAlways ==
    [][op' = "create_project" =>
       \A name \in ProjectNames :
         (HasKey(projects, name) /\ CreateProject(name, <<"d">>))
         => (result' = DuplicateName /\ projects' = projects)]_vars

\* C4 amended: such a call always fails and changes nothing; it raises the
\* duplicate-name error on a dict below the project cap and the capacity
\* error on a full dict.
C4_DuplicateNameFails ==
    [][op' = "create_project" =>
       \A name \in ProjectNames :
         (HasKey(projects, name) /\ CreateProject(name, <<"d">>))
         => (/\ projects' = projects
             /\ result' = IF Len(projects) >= MAX_NUMBER_OF_PROJECTS
                          THEN ProjectCapacityExceeded
                          ELSE DuplicateName)]_vars

\* create_project has just raised the capacity error on a full dict in
\* which every non-empty name it is given is a key: the call was one with
\* a duplicate name on a full dict
C4_Witness ==
    /\ op = "create_project"
    /\ result = ProjectCapacityExceeded
    /\ Len(projects) = MAX_NUMBER_OF_PROJECTS
    /\ \A name \in ProjectNames : Strip(name) # <<>> => HasKey(projects, name)

\* C6: after a successful delete_project(p), get_project(p) raises
\* not-found, so does every task method on p, no project is listed under
\* the name p, and every other project is as it was; a successful
\* create_project(p), also one after a delete, stores a project with an
\* empty task list.
C6_CascadeDelete ==
    [][/\ (op' = "delete_project" /\ result' = OK) =>
            \A p \in ProjectNames :
              (HasKey(projects, p) /\ DeleteProject(p))
              => (/\ get_project(projects', p).err = ProjectNotFound
                  /\ \A t \in TitlesOf(DictGet(projects, p)) :
                        /\ remove_task_from_project(projects', p, t).err
                              = ProjectNotFound
                        /\ update_task(projects', p, t, None, None, None,
                                       None).err = ProjectNotFound
                  /\ \A i \in 1..Len(projects') : projects'[i].proj.name # p
                  /\ Len(projects') = Len(projects) - 1
                  /\ OthersUnchanged(p))
       /\ (op' = "create_project" /\ result' = OK) =>
            \A p \in ProjectNames :
              CreateProject(p, <<"d">>)
              => (/\ get_project(projects', p).err = OK
                  /\ get_project(projects', p).val.tasks = <<>>
                  /\ OthersUnchanged(p))]_vars

\* delete_project has just succeeded and left behind a project with tasks
C6_Witness ==
    /\ op = "delete_project"
    /\ result = OK
    /\ \E i \in 1..Len(projects) : Len(projects[i].proj.tasks) = 2

\* C7: after a successful update_project(cur, new_name=n) with n trimmed
\* other than cur and not a key, get_project(cur) raises not-found,
\* get_project(trimmed n) returns the project with the same tasks in the
\* same order and, when no description is given, the same description, and
\* the number of projects and every other project are as they were.
C7_RenameKeepsProject ==
    [][(op' = "update_project" /\ result' = OK) =>
       \A cur \in ProjectNames \cup {<<"c">>}, n \in ProjectNewNames \ {None},
          d \in ProjectNewDescriptions :
         (/\ HasKey(projects, cur)
          /\ Strip(Val(n)) # cur
          /\ ~HasKey(projects, Strip(Val(n)))
          /\ UpdateProject(cur, n, d))
         => (/\ get_project(projects', cur).err = ProjectNotFound
             /\ get_project(projects', Strip(Val(n))).err = OK
             /\ get_project(projects', Strip(Val(n))).val.tasks
                   = DictGet(projects, cur).tasks
             /\ d = None =>
                   get_project(projects', Strip(Val(n))).val.description
                      = DictGet(projects, cur).description
             /\ Len(projects') = Len(projects)
             /\ OthersUnchanged(cur))]_vars

\* update_project has just succeeded on a dict that holds, under the name
\* "c" that only a rename produces, a project with its two tasks and the
\* description it was created with, beside another project
C7_Witness ==
    /\ op = "update_project"
    /\ result = OK
    /\ Len(projects) = 2
    /\ HasKey(projects, <<"c">>)
    /\ Len(DictGet(projects, <<"c">>).tasks) = 2
    /\ DictGet(projects, <<"c">>).description = <<"d">>

\* C8: in every reachable state, update_project(cur, new_name=n,
\* new_description=d) on an existing cur, with n trimmed other than cur and
\* the key of another project, raises the duplicate-name error and leaves
\* the dict, cur's project and the project under n as they were, d given
\* or not; with n only whitespace it raises the empty-name error and
\* changes nothing.
C8_RejectedRenameChangesNothing ==
    \A cur \in Keys(projects), n \in ProjectNewNames \ {None},
       d \in ProjectNewDescriptions :
       /\ (Strip(Val(n)) # cur /\ HasKey(projects, Strip(Val(n))))
             => update_project(projects, cur, n, d)
                   = [err |-> NewNameExists, projects |-> projects]
       /\ Strip(Val(n)) = <<>>
             => update_project(projects, cur, n, d)
                   = [err |-> NewNameEmpty, projects |-> projects]

\* update_project has just raised the duplicate-name error on a dict that
\* holds two projects, one with a description a given d would replace
C8_Witness ==
    /\ op = "update_project"
    /\ result = NewNameExists
    /\ Len(projects) = 2
    /\ \E i \in 1..Len(projects) : projects[i].proj.description = <<"d">>

\* C9: in every reachable state, when add_task_to_project(p, title,
\* description, deadline, status) succeeds, get_task on project p with that
\* title returns a task whose title, description, deadline and status are
\* the arguments as given (status being 'todo' when none is given).
C9_AddThenGet ==
    \A pn \in TaskProjectNames, t \in TaskTitles, d \in TaskDescriptions,
       dl \in TaskDeadlines, st \in TaskStatusArgs :
       LET r == add_task_to_project(projects, pn, t, d, dl, st) IN
       r.err = OK =>
          /\ get_project(r.projects, pn).err = OK
          /\ LET proj == get_project(r.projects, pn).val IN
             /\ get_task(proj, t).err = OK
             /\ proj.tasks[get_task(proj, t).val]
                   = [title |-> t, description |-> d,
                      deadline |-> dl, status |-> st]

\* add_task_to_project has just stored a task whose title has a leading
\* blank, whose description has the greatest length allowed, whose deadline
\* is not zero-padded and whose status is not the default
C9_Witness ==
    /\ op = "add_task_to_project"
    /\ result = OK
    /\ HasKey(projects, sA)
    /\ LET tasks == DictGet(projects, sA).tasks IN
       /\ tasks # <<>>
       /\ tasks[Len(tasks)] = [title |-> <<" ", "t">>,
                               description |-> Repeat("y", MaxDescriptionLen),
                               deadline |-> Date2, status |-> "done"]

\* the checks of add_task_to_project in the order the claim gives them,
\* each with the error it reports
C10_Checks(P, pn, t, d, dl, st) ==
    << <<~HasKey(P, pn), ProjectNotFound>>,
       <<Strip(t) = <<>>, EmptyTitle>>,
       <<Len(t) > MaxTitleLen, TitleTooLong>>,
       <<Len(d) > MaxDescriptionLen, DescriptionTooLong>>,
       <<Strip(dl) = <<>>, MissingDeadline>>,
       <<~ParsesYmd(dl), InvalidDeadline>>,
       <<st \notin Statuses, InvalidStatus>>,
       <<HasKey(P, pn) /\ Len(DictGet(P, pn).tasks)
                             >= MAX_NUMBER_OF_TASKS_PER_PROJECT,
         TaskCapacityExceeded>>,
       <<HasKey(P, pn) /\ t \in TitlesOf(DictGet(P, pn)), DuplicateTitle>> >>

\* the error of the first check that fails, OK when none does
C10_FirstViolation(P, pn, t, d, dl, st) ==
    LET checks == C10_Checks(P, pn, t, d, dl, st)
        failing == {i \in 1..Len(checks) : checks[i][1]}
    IN  IF failing = {} THEN OK
        ELSE checks[CHOOSE i \in failing : \A j \in failing : i <= j][2]

\* C10: in every reachable state add_task_to_project reports the first
\* violation in the order project not found, empty title, title longer
\* than 30, description longer than 150, missing deadline, unparseable
\* deadline, invalid status, task cap reached, duplicate title, and
\* whenever it fails the dict, so the project's task list, is as it was.
C10_CheckOrder ==
    \A pn \in TaskProjectNames, t \in TaskTitles, d \in TaskDescriptions,
       dl \in TaskDeadlines, st \in TaskStatusArgs :
       LET r == add_task_to_project(projects, pn, t, d, dl, st) IN
       /\ r.err = C10_FirstViolation(projects, pn, t, d, dl, st)
       /\ r.err # OK => r.projects = projects

\* add_task_to_project has just raised the invalid-deadline error on an
\* existing project whose task list is empty
C10_Witness ==
    /\ op = "add_task_to_project"
    /\ result = InvalidDeadline
    /\ HasKey(projects, sA)
    /\ DictGet(projects, sA).tasks = <<>>

\* the task that update_task(P, pn, t, ...) resolves: the first task titled
\* t of the project keyed pn
Addressed(P, pn, t) == DictGet(P, pn).tasks[FirstMatch(DictGet(P, pn).tasks, t)]

\* update_task(P, pn, t, ...) resolves a task
Resolves(P, pn, t) ==
    HasKey(P, pn) /\ TitleMatches(DictGet(P, pn).tasks, t) # {}

\* the task at the position of the one update_task(P, pn, t, ...) resolves,
\* in the dict Q the call leaves behind
AddressedAfter(P, Q, pn, t) ==
    DictGet(Q, pn).tasks[FirstMatch(DictGet(P, pn).tasks, t)]

C12_DeadlineValid ==
    /\ \A i \in 1..Len(projects) :
          \A j \in 1..Len(projects[i].proj.tasks) :
             ParsesYmd(projects[i].proj.tasks[j].deadline)
    /\ \A t \in FieldTitles, nt \in FieldNewTitles,
          ndl \in FieldNewDeadlines \ {None}, ns \in FieldNewStatuses :
          (Resolves(projects, sA, t) /\ ~ParsesYmd(Val(ndl)))
          => LET r == update_task(projects, sA, t, nt, None, ndl, ns) IN
             /\ r.err = InvalidDeadlineFormat
             /\ AddressedAfter(projects, r.projects, sA, t).deadline
                   = Addressed(projects, sA, t).deadline

\* update_task has just raised the invalid-deadline error on a project that
\* holds a task whose deadline an earlier update_task call replaced
C12_Witness ==
    /\ op = "update_task"
    /\ result = InvalidDeadlineFormat
    /\ HasKey(projects, sA)
    /\ \E j \in 1..Len(DictGet(projects, sA).tasks) :
          DictGet(projects, sA).tasks[j].deadline = Date2

\* C13: in every reachable state no task has an empty title, and
\* update_task with a new_title that is absent, empty or only whitespace
\* leaves the title of the task it resolves as it was.
C13_TitleNeverEmpty ==
    /\ \A i \in 1..Len(projects) :
          \A j \in 1..Len(projects[i].proj.tasks) :
             projects[i].proj.tasks[j].title # <<>>
    /\ \A t \in TitleLookups, nt \in TitleNewTitles,
          nd \in TitleNewDescriptions :
          (Resolves(projects, sA, t) /\ (nt = None \/ Strip(Val(nt)) = <<>>))
          => AddressedAfter(projects,
                            update_task(projects, sA, t, nt, nd, None,
                                        None).projects,
                            sA, t).title
                = Addressed(projects, sA, t).title

\* C14: in every reachable state every task's title has at most 30
\* characters and every task's description has at most 150 characters.
C14_LengthsBounded ==
    \A i \in 1..Len(projects) :
       \A j \in 1..Len(projects[i].proj.tasks) :
          /\ Len(projects[i].proj.tasks[j].title) <= MaxTitleLen
          /\ Len(projects[i].proj.tasks[j].description) <= MaxDescriptionLen

\* C15: while an update_project call renames a project, in the state before
\* and after each of its statements the project is stored under the old or
\* the new key, the old and the new key never refer to different objects,
\* and once the old key is deleted, and after the return, the new key and
\* no other key refers to the project.
C15_Rekeying ==
    /\ [](\A c \in RenameCallers :
            frames[c].pc \in {"L54", "L55", "L56", "L58"} =>
              LET f == frames[c]
                  old == f.current_name
                  new == IF f.new_name # None THEN CleanNew(f) ELSE old
              IN  /\ \E k \in {old, new} :
                        HasKey(projects, k) /\ RefOf(projects, k) = f.proj
                  /\ (HasKey(projects, old) /\ HasKey(projects, new))
                        => RefOf(projects, old) = RefOf(projects, new)
                  /\ f.pc = "L58" =>
                        \A k \in Keys(projects) :
                           RefOf(projects, k) = f.proj <=> k = new)
    /\ [][\A c \in RenameCallers :
            (frames[c].pc = "L58" /\ frames'[c] = Idle) =>
               /\ Keys(projects') = Keys(projects)
               /\ \A k \in Keys(projects) :
                     RefOf(projects', k) = RefOf(projects, k)]_vars

\* a rename is between its insertion under the new key "c" and the deletion
\* of the old key: both keys are in the dict, beside another project
C15_Witness ==
    /\ frames[1].pc = "L56"
    /\ Len(projects) = 3
    /\ HasKey(projects, <<"c">>)
    /\ HasKey(projects, frames[1].current_name)

\* C16: in every reachable state, update_task with all optional fields
\* absent returns and leaves the dict as it was; with any fields, the dict
\* after the call differs from the dict before at most in the one task the
\* call resolves, so every other task of that project, every task of every
\* other project (those of the same title too) and every project's key,
\* name and description are as they were; and a field of that task differs
\* only if the call was given that field.
C16_UpdateTaskFrame ==
    \A pn \in FrameNames, t \in FrameTitles, nt \in FrameNewTitles,
       nd \in FrameNewDescriptions, ndl \in FrameNewDeadlines,
       ns \in FrameNewStatuses :
       LET r == update_task(projects, pn, t, nt, nd, ndl, ns) IN
       IF ~Resolves(projects, pn, t) THEN r.projects = projects
       ELSE
         LET k == KeyIndex(projects, pn)
             j == FirstMatch(projects[k].proj.tasks, t)
             before == projects[k].proj.tasks[j]
             after == r.projects[k].proj.tasks[j]
         IN  /\ (nt = None /\ nd = None /\ ndl = None /\ ns = None)
                   => r = Returned(projects)
             /\ r.projects = [projects EXCEPT ![k].proj.tasks[j] = after]
             /\ after.title # before.title => nt # None
             /\ after.description # before.description => nd # None
             /\ after.deadline # before.deadline => ndl # None
             /\ after.status # before.status => ns # None

\* update_task has just returned, and the two projects each hold a task
\* titled "t" as their first task, one with the description an update_task
\* call gave it and the other with the description it was added with
C16_Witness ==
    /\ op = "update_task"
    /\ result = OK
    /\ Len(projects) = 2
    /\ \A i \in 1..2 :
          /\ projects[i].proj.tasks # <<>>
          /\ projects[i].proj.tasks[1].title = sT
    /\ \E i \in 1..2 :
          /\ projects[i].proj.tasks[1].description = <<"e">>
          /\ projects[3 - i].proj.tasks[1].description = <<>>

ListedBefore(P, k1, k2) ==
    \E i, j \in 1..Len(list_projects(P)) :
       i < j /\ P[i].key = k1 /\ P[j].key = k2

\* C18: over every manager call, any two projects that are in the dict
\* before and after it are listed by list_projects in the same relative
\* order before and after; a project that update_project renames is the
\* same project under its new key.
C18_StableOrder ==
    [][/\ op' # "update_project" =>
            \A k1, k2 \in Keys(projects) \cap Keys(projects') :
               ListedBefore(projects, k1, k2) <=> ListedBefore(projects', k1, k2)
       /\ op' = "update_project" =>
            \A cur \in ProjectNames \cup {<<"c">>}, n \in ProjectNewNames,
               d \in ProjectNewDescriptions :
               UpdateProject(cur, n, d) =>
                  LET KeyAfter(k) ==
                          IF k = cur /\ n # None /\ result' = OK
                          THEN Strip(Val(n)) ELSE k
                  IN  \A k1, k2 \in Keys(projects) :
                         ListedBefore(projects, k1, k2)
                            <=> ListedBefore(projects', KeyAfter(k1),
                                             KeyAfter(k2))]_vars

\* C19: in every reachable state, for every task of every project and every
\* status s of todo, doing, done, the call update_task(project, the task's
\* title, new_status=s) returns and leaves that task with status s,
\* whatever its status was and whatever calls came before.
C19_AnyTransition ==
    \A i \in 1..Len(projects) :
       \A j \in 1..Len(projects[i].proj.tasks) :
          \A s \in Statuses :
             LET r == update_task(projects, projects[i].key,
                                  projects[i].proj.tasks[j].title,
                                  None, None, None, Some(s))
             IN  /\ r.err = OK
                 /\ r.projects[i].proj.tasks[j].status = s

\* C20: in every reachable state, an update_task call that resolves a task
\* raises the invalid-deadline error exactly when it is given a deadline
\* that does not parse, and then leaves the task with the given title
\* (trimmed) and description assigned and its deadline and status as they
\* were; otherwise it raises the invalid-status error exactly when it is
\* given a non-empty status outside todo, doing, done, and then leaves the
\* task with the given title, description and deadline assigned and its
\* status as it was.
C20_PartialUpdate ==
    \A t \in UpdateTitles, nt \in UpdateNewTitles,
       nd \in UpdateNewDescriptions, ndl \in UpdateNewDeadlines,
       ns \in UpdateNewStatuses :
       Resolves(projects, sA, t) =>
          LET r == update_task(projects, sA, t, nt, nd, ndl, ns)
              before == Addressed(projects, sA, t)
              after == AddressedAfter(projects, r.projects, sA, t)
              title == IF nt # None /\ Val(nt) # <<>>
                       THEN Strip(Val(nt)) ELSE before.title
              description == IF nd # None THEN Val(nd) ELSE before.description
              bad_deadline == ndl # None /\ ~ParsesYmd(Val(ndl))
              bad_status ==
                  ns # None /\ Val(ns) # "" /\ Val(ns) \notin Statuses
          IN  /\ r.err = InvalidDeadlineFormat <=> bad_deadline
              /\ r.err = InvalidStatus <=> (~bad_deadline /\ bad_status)
              /\ r.err = InvalidDeadlineFormat =>
                    after = [title |-> title, description |-> description,
                             deadline |-> before.deadline,
                             status |-> before.status]
              /\ r.err = InvalidStatus =>
                    after = [title |-> title, description |-> description,
                             deadline |-> IF ndl # None THEN Val(ndl)
                                          ELSE before.deadline,
                             status |-> before.status]

\* update_task has just raised the invalid-deadline error and the project
\* holds a task with the title and the description an update_task call
\* gives and the deadline and the status it was added with
C20_Witness ==
    /\ op = "update_task"
    /\ result = InvalidDeadlineFormat
    /\ HasKey(projects, sA)
    /\ \E j \in 1..Len(DictGet(projects, sA).tasks) :
          DictGet(projects, sA).tasks[j]
             = [title |-> sU, description |-> <<"e">>,
                deadline |-> Date1, status |-> DefaultStatus]

\* every call in flight is made inside the mutual-exclusion region
AllLocked == \A c \in Callers : Creating(c) => frames[c].locked

\* the dict holds more projects than the cap
CapBroken == Len(projects) > MAX_NUMBER_OF_PROJECTS

\* a caller holds the project its create_project call returned, and the
\* dict, from which nothing was deleted, does not refer to it any more
Replaced == \E r \in Held : r \notin Refs(projects)

\* C21: in every behaviour in which each create_project call runs from its
\* tests to its return inside the mutual-exclusion region, the dict never
\* holds more projects than the cap and no project a call returned is
\* replaced by another caller's under the same name; with calls made
\* outside the region both kinds of state are reachable.
C21_ExclusionKeepsInvariants ==
    [](AllLocked) => [](~CapBroken /\ ~Replaced)

\* two interleaved calls have stored their projects and the dict holds one
\* project more than the cap
C21_Witness ==
    /\ CapBroken
    /\ \A c \in Callers : frames[c].pc = "returned"
    /\ \A c \in Callers : frames[c].proj \in Refs(projects)

\* the ToDoError messages
ToDoErrors ==
    {EmptyName, ProjectCapacityExceeded, DuplicateName, ProjectNotFound,
     NewNameEmpty, NewNameExists, EmptyTitle, TitleTooLong,
     DescriptionTooLong, MissingDeadline, InvalidDeadline,
     InvalidDeadlineFormat, InvalidStatus, TaskCapacityExceeded,
     DuplicateTitle, TaskNotFound}

\* a pass of the loop whose manager call raised, or whose choice is not on
\* the menu, reports it and is back at the read of the next choice
FailureContinues ==
    [][result' \in ToDoErrors \cup {"Invalid selection."}
          => frames'[1].pc = "idle"]_vars

\* the loop leaves the read of the menu choice only by choice 10
EndsOnlyByExit ==
    [][LoopRunning /\ frames'[1].pc # "idle" => op' = "10"]_vars

\* C22: a failure never terminates the process: after a menu choice whose
\* manager call fails, or a choice that is not on the menu, the loop reports
\* it and accepts the next choice; the loop ends only when choice 10 (Exit)
\* is selected.
C22_LoopEndsOnlyOnExit == FailureContinues /\ EndsOnlyByExit

\* C23: after every completed manager operation (no call in flight), every
\* key of the dict maps to a project whose name field is that key, and no
\* project object is stored under two different keys.
C23_KeyIsName ==
    Quiet =>
      /\ \A i \in 1..Len(projects) : projects[i].proj.name = projects[i].key
      /\ \A i, j \in 1..Len(projects) :
            i # j => /\ projects[i].key # projects[j].key
                     /\ projects[i].ref # projects[j].ref

\* an update_project call has returned after renaming a project to "c" and
\* giving it a new description, beside another project
C23_Witness ==
    /\ Quiet
    /\ op = "update_project"
    /\ result = OK
    /\ Len(projects) = 2
    /\ HasKey(projects, <<"c">>)
    /\ DictGet(projects, <<"c">>).description = <<"e">>

=============================================================================
